---- MODULE Spec2Model ----
(***************************************************************************)
(* Split-flap display server: the display state, the command queue for     *)
(* polling clients, the registry of WebSocket observers with its           *)
(* broadcast, and the MQTT bridge of server.py; the queue of               *)
(* simple_server.py.                                                       *)
(*                                                                         *)
(* server.py runs on one asyncio event loop.  A handler runs without       *)
(* interruption up to an await that can suspend it, so every action below  *)
(* is the code between two suspension points.  The suspension points are   *)
(* the send_json calls of ConnectionManager.broadcast and receive_json of  *)
(* the WebSocket read loop.  A send_json hands its message to the          *)
(* connection when it is called (messages of one connection leave in call  *)
(* order) and may suspend the caller afterwards.                           *)
(*                                                                         *)
(* Python dicts are functions from string keys; a text line is a sequence  *)
(* of characters.  The key "mid" of a broadcast or queued command is a     *)
(* history tag (the number of the mutation that produced it); the program  *)
(* has no such key and no action reads it.                                 *)
(***************************************************************************)
EXTENDS Integers, Sequences, FiniteSets, TLC

\* ---------------------------------------------------------------- bounds
\* Spec: every channel and every input shape
MaxMutations == 2
NumObservers == 2
MaxStateRequests == 1
\* SpecFanout: concurrent broadcasts, observers coming and going
MaxFanoutMutations == 2
NumFanoutObservers == 2
\* SpecJoin: observers joining while a broadcast is under way
MaxJoinMutations == 1
NumJoinObservers == 2
\* SpecQueue: the command queues and their polls
MaxQueueCommands == 3

\* SpecText: lines of every length on every channel
MaxTextMutations == 2
NumTextObservers == 2

\* SpecLimiter: RATE_LIMIT_REQUESTS and RATE_LIMIT_WINDOW are read from the
\* environment; the model takes small values, MaxTime ticks of the clock
\* and MaxLimiterCalls calls
RATE_LIMIT_REQUESTS == 2
RATE_LIMIT_WINDOW == 2
MaxTime == 5
MaxLimiterCalls == 5

\* SpecGate: REST requests with their client address and X-API-Key header
MaxGateMutations == 2

\* SpecShape: the payload shapes of POST /api/display on both servers
MaxShapeCommands == 2

\* SpecBridge: failing deliveries and the bus bridge coming and going
MaxBridgeMutations == 1

\* SpecClock: state queries and mutations while the clock moves on
MaxClockMutations == 1
MaxDisplayQueries == 2

\* SpecChain: two REST mutations whose side-effect chains may overlap
MaxChainMutations == 2

\* SpecInbound: bus messages while the bridge connects and disconnects
MaxInboundMessages == 2

Observers == 1..NumObservers
FanoutObservers == 1..NumFanoutObservers
JoinObservers == 1..NumJoinObservers

\* ----------------------------------------------------------- text lines
Empty == <<>>
LA == <<"A">>
LB == <<"B">>
LG == <<"G">>

SevenLines == <<LA, LB, LA, LB, LA, LB, LG>>

LineKey == <<"line1", "line2", "line3", "line4", "line5", "line6">>
ColorKey == <<"color1", "color2", "color3", "color4", "color5", "color6">>

Min(a, b) == IF a < b THEN a ELSE b

Range(s) == {s[i] : i \in 1..Len(s)}

\* dict.get(key, default)
Get(d, key, default) == IF key \in DOMAIN d THEN d[key] ELSE default

\* list[:n]
Take(s, n) == SubSeq(s, 1, Min(n, Len(s)))

\* [""] * n  (the empty list when n <= 0)
Blanks(n) == [i \in 1..n |-> Empty]

\* list.remove(x) of an element that is in the list: its first occurrence
RemoveFirst(s, x) ==
  LET i == CHOOSE k \in 1..Len(s) : s[k] = x /\ \A j \in 1..(k - 1) : s[j] # x
  IN  SubSeq(s, 1, i - 1) \o SubSeq(s, i + 1, Len(s))

VARIABLES
  current_display,     \* AppState.current_display
  datetime_mode,       \* AppState.datetime_mode
  command_queue,       \* AppState.command_queue
  active_connections,  \* ConnectionManager.active_connections (a list)
  connected,           \* MQTTManager.connected
  ws_pc,               \* websocket_endpoint task of each observer
  alive,               \* whether the observer's peer is still there
  inbox,               \* messages handed to each observer's connection
  bcasts,              \* frames of ConnectionManager.broadcast, by mutation
  bus_tasks,           \* tasks created by MQTTManager.on_message, not yet run
  polled,              \* commands returned by poll_commands, in order
  poll_result,         \* the last response of poll_commands
  state_log,           \* responses of get_display, in order (history)
  published,           \* payloads published on the status topic
  now,                 \* time.time()
  simple_queue,        \* simple_server.py: SplitFlapHandler.command_queue
  simple_posted,       \* simple_server.py: commands queued so far (history)
  simple_polled,       \* simple_server.py: commands returned by polls, in order
  simple_result,       \* simple_server.py: the last response to a poll
  requests,            \* RateLimiter.requests: client IP -> timestamps
  limit_log            \* calls of RateLimiter.check_rate_limit, in order

vars == <<current_display, datetime_mode, command_queue, active_connections,
          connected, ws_pc, alive, inbox, bcasts, bus_tasks, polled,
          poll_result, state_log, published, now, simple_queue, simple_posted,
          simple_polled, simple_result, requests, limit_log>>

simpleVars == <<simple_queue, simple_posted, simple_polled, simple_result>>
serverVars == <<current_display, datetime_mode, command_queue,
                active_connections, connected, ws_pc, alive, inbox, bcasts,
                bus_tasks, polled, poll_result, state_log, published, now,
                requests, limit_log>>

appVars == <<current_display, datetime_mode, command_queue>>
wsVars == <<ws_pc, alive, inbox>>
pollVars == <<polled, poll_result, state_log>>
limiterVars == <<requests, limit_log>>

\* ------------------------------------------------------------- AppState

\* mutant: the padding is left out
update_display_nopad(lines) == Take(lines, 6)

\* lines[:6] + [""] * (6 - len(lines))
update_display(lines) == Take(lines, 6) \o Blanks(6 - Len(lines))

add_command(command) == command_queue' = Append(command_queue, command)

get_state ==
  [lines |-> current_display, datetime_mode |-> datetime_mode, timestamp |-> now]

\* get_state() evaluated after the assignments of the running step; the
\* clock is read within the step
get_state_next ==
  [lines |-> current_display', datetime_mode |-> datetime_mode',
   timestamp |-> now]

NoCommand == [action |-> "none"]

\* mutant: an empty queue answers with the command returned last
get_command_value_replay ==
  IF command_queue # <<>> THEN Head(command_queue)
  ELSE IF polled # <<>> THEN polled[Len(polled)] ELSE NoCommand

\* the value get_command returns
get_command_value == IF command_queue # <<>> THEN Head(command_queue) ELSE NoCommand

\* mutant: the command is read and not removed
get_command_queue_peek == command_queue

\* the queue get_command leaves
get_command_queue == IF command_queue # <<>> THEN Tail(command_queue) ELSE command_queue

\* number of mutations applied so far; the next one is NextMid
NextMid == Len(bcasts) + 1

Tagged(command) == ("mid" :> NextMid) @@ command

\* command = {"action": "setDisplay"}; for i, line in enumerate(lines): command[f"line{i+1}"] = line
SetDisplayCommand(lines) ==
  [k \in {LineKey[i] : i \in 1..Len(lines)} |->
     lines[CHOOSE i \in 1..Len(lines) : LineKey[i] = k]]
  @@ [action |-> "setDisplay"]

\* ---------------------------------------------------- ConnectionManager

\* MQTTManager.publish_status, called when a handler's broadcast has returned.
\* client.publish is called when the bridge is connected; ok FALSE is the
\* call raising, which "except Exception" swallows.
publish_status ==
  IF connected
    THEN \E ok \in BOOLEAN :
           published' = Append(published, [payload |-> get_state_next, ok |-> ok])
    ELSE UNCHANGED published

\* "await manager.broadcast(message)" up to its first suspension, called by
\* the handler of observer ws (0: a REST or bus handler) that runs
\* publish_status afterwards or not.  With no connection the loop body never
\* runs: broadcast returns at once and the handler runs to its end.
\* Otherwise send_json is called on the first connection and the handler is
\* suspended there, the list iterator at index 1.
BeginBroadcast(message, ws, publish) ==
  /\ UNCHANGED active_connections
  /\ IF active_connections = <<>>
       THEN /\ bcasts' = Append(bcasts,
                 [pc |-> "done", msg |-> message, idx |-> 0,
                  disconnected |-> <<>>, ws |-> ws, publish |-> publish,
                  targets |-> {}])
            /\ UNCHANGED <<inbox, ws_pc>>
            /\ IF publish THEN publish_status ELSE UNCHANGED published
       ELSE LET c == active_connections[1] IN
            /\ bcasts' = Append(bcasts,
                 [pc |-> "iter", msg |-> message, idx |-> 1,
                  disconnected |-> IF alive[c] THEN <<>> ELSE <<c>>,
                  ws |-> ws, publish |-> publish,
                  targets |-> Range(active_connections)])
            /\ inbox' = IF alive[c]
                          THEN [inbox EXCEPT ![c] = Append(@, message)]
                          ELSE inbox
            /\ ws_pc' = IF ws # 0 THEN [ws_pc EXCEPT ![ws] = "bcast"] ELSE ws_pc
            /\ UNCHANGED published

InitWith(observers) ==
  /\ current_display = <<Empty, Empty, Empty, Empty, Empty, Empty>>
  /\ datetime_mode = FALSE
  /\ command_queue = <<>>
  /\ active_connections = <<>>
  /\ connected = FALSE
  /\ ws_pc = [o \in observers |-> "idle"]
  /\ alive = [o \in observers |-> FALSE]
  /\ inbox = [o \in observers |-> <<>>]
  /\ bcasts = <<>>
  /\ bus_tasks = <<>>
  /\ polled = <<>>
  /\ poll_result = NoCommand
  /\ state_log = <<>>
  /\ published = <<>>
  /\ now = 0
  /\ simple_queue = <<>>
  /\ simple_posted = 0
  /\ simple_polled = <<>>
  /\ simple_result = NoCommand
  /\ requests = <<>>
  /\ limit_log = <<>>

Init == InitWith(Observers)

\* mutations applied or scheduled so far
Mutations == Len(bcasts) + Len(bus_tasks)


\* ---------------------------------------------------------- RateLimiter

\* client addresses
Sources == {"10.0.0.1", "10.0.0.2"}

\* "while q and q[0] < now - RATE_LIMIT_WINDOW: q.popleft()"
RECURSIVE DropOld(_)
DropOld(q) ==
  IF q # <<>> /\ Head(q) < now - RATE_LIMIT_WINDOW
    THEN DropOld(Tail(q))
    ELSE q

\* mutant: the limit is exceeded one request too late
limit_exceeded_late(q) == Len(q) > RATE_LIMIT_REQUESTS

\* "if len(self.requests[client_ip]) >= RATE_LIMIT_REQUESTS"
limit_exceeded(q) == Len(q) >= RATE_LIMIT_REQUESTS

\* mutant: a denied request is recorded too
limit_record_always(q) == Append(q, now)

\* the deque after the decision: "return False" leaves it, an admitted
\* request appends now
limit_record(q) == IF limit_exceeded(q) THEN q ELSE Append(q, now)

\* mutant: one window is kept for all sources
check_rate_limit_shared(client_ip) ==
  LET q == DropOld(Get(requests, client_ip, <<>>)) IN
  /\ requests' = [s \in Sources |-> limit_record(q)]
  /\ limit_log' = Append(limit_log,
       [client_ip |-> client_ip, at |-> now, ok |-> ~limit_exceeded(q)])
  /\ UNCHANGED <<appVars, active_connections, connected, wsVars, bcasts,
                 bus_tasks, pollVars, published, now, simpleVars>>

\* RateLimiter.check_rate_limit; its return value is the ok of the log entry
check_rate_limit(client_ip) ==
  LET q == DropOld(Get(requests, client_ip, <<>>)) IN
  /\ requests' = (client_ip :> limit_record(q)) @@ requests
  /\ limit_log' = Append(limit_log,
       [client_ip |-> client_ip, at |-> now, ok |-> ~limit_exceeded(q)])
  /\ UNCHANGED <<appVars, active_connections, connected, wsVars, bcasts,
                 bus_tasks, pollVars, published, now, simpleVars>>

\* time.time() moves on
Tick ==
  /\ now' = now + 1
  /\ UNCHANGED <<appVars, active_connections, connected, wsVars, bcasts,
                 bus_tasks, pollVars, published, simpleVars, limiterVars>>

\* ------------------------------------------------------- REST handlers

\* request bodies of POST /api/display
RestDisplayInputs ==
  { [lines |-> <<LA>>],
    [lines |-> SevenLines],
    [line1 |-> LA, line2 |-> LB],
    [text |-> LA] }

\* mutant: datetime_mode is not reset
set_display_apply_keep_mode(lines) ==
  /\ current_display' = update_display(lines)
  /\ add_command(Tagged(SetDisplayCommand(lines)))
  /\ BeginBroadcast(Tagged(SetDisplayCommand(lines)), 0, TRUE)
  /\ UNCHANGED <<datetime_mode, connected, alive, bus_tasks, pollVars, now,
                 simpleVars, limiterVars>>

\* set_display from "# Update state" on, up to the first send of broadcast
set_display_apply(lines) ==
  /\ current_display' = update_display(lines)
  /\ datetime_mode' = FALSE
  /\ add_command(Tagged(SetDisplayCommand(lines)))
  /\ BeginBroadcast(Tagged(SetDisplayCommand(lines)), 0, TRUE)
  /\ UNCHANGED <<connected, alive, bus_tasks, pollVars, now, simpleVars, limiterVars>>

set_display(data) ==
  IF "lines" \in DOMAIN data
    THEN set_display_apply(Take(data.lines, 6))
    ELSE IF \E i \in 1..6 : LineKey[i] \in DOMAIN data
      THEN set_display_apply([i \in 1..6 |-> Get(data, LineKey[i], Empty)])
      ELSE UNCHANGED vars   \* HTTPException(400)

\* mutant: datetime_mode is not reset
clear_display_keep_mode ==
  /\ current_display' = update_display(<<Empty, Empty, Empty, Empty, Empty, Empty>>)
  /\ add_command(Tagged([action |-> "clear"]))
  /\ BeginBroadcast(Tagged([action |-> "clear"]), 0, TRUE)
  /\ UNCHANGED <<datetime_mode, connected, alive, bus_tasks, pollVars, now,
                 simpleVars, limiterVars>>

clear_display ==
  /\ current_display' = update_display(<<Empty, Empty, Empty, Empty, Empty, Empty>>)
  /\ datetime_mode' = FALSE
  /\ add_command(Tagged([action |-> "clear"]))
  /\ BeginBroadcast(Tagged([action |-> "clear"]), 0, TRUE)
  /\ UNCHANGED <<connected, alive, bus_tasks, pollVars, now, simpleVars, limiterVars>>

start_demo ==
  /\ datetime_mode' = FALSE
  /\ add_command(Tagged([action |-> "demo"]))
  /\ BeginBroadcast(Tagged([action |-> "demo"]), 0, FALSE)
  /\ UNCHANGED <<current_display, connected, alive, bus_tasks, pollVars,
                 now, simpleVars, limiterVars>>

set_datetime_mode(enable) ==
  /\ datetime_mode' = enable
  /\ UNCHANGED <<current_display, connected, alive, bus_tasks, pollVars,
                 now, simpleVars, limiterVars>>
  /\ add_command(Tagged([action |-> "datetime", enable |-> enable]))
  /\ BeginBroadcast(Tagged([action |-> "datetime", enable |-> enable]), 0, TRUE)

\* GET /api/commands
poll_commands ==
  /\ poll_result' = get_command_value
  /\ command_queue' = get_command_queue
  /\ polled' = IF get_command_value = NoCommand
                 THEN polled
                 ELSE Append(polled, get_command_value)
  /\ UNCHANGED <<current_display, datetime_mode, active_connections, connected,
                 wsVars, bcasts, bus_tasks, state_log, published, now,
                 simpleVars, limiterVars>>

\* GET /api/display: the response is get_state(); the log keeps with it the
\* number of mutations applied before the query
get_display ==
  /\ state_log' = Append(state_log, [state |-> get_state, applied |-> Len(bcasts)])
  /\ UNCHANGED <<appVars, active_connections, connected, wsVars, bcasts,
                 bus_tasks, polled, poll_result, published, now, simpleVars,
                 limiterVars>>

\* ------------------------------------------- ConnectionManager.broadcast

\* a handler suspended in a send is resumed and the list iterator has a
\* next element: send_json is called on it and hands the message over, or
\* raises and the connection is noted
BroadcastSend(m) ==
  LET f == bcasts[m] IN
  /\ f.pc = "iter"
  /\ f.idx < Len(active_connections)
  /\ LET c == active_connections[f.idx + 1] IN
       IF alive[c]
         THEN /\ inbox' = [inbox EXCEPT ![c] = Append(@, f.msg)]
              /\ bcasts' = [bcasts EXCEPT ![m].idx = @ + 1]
         ELSE /\ bcasts' = [bcasts EXCEPT ![m].idx = @ + 1,
                                          ![m].disconnected = Append(@, c)]
              /\ UNCHANGED inbox
  /\ UNCHANGED <<appVars, active_connections, connected, ws_pc, alive,
                 bus_tasks, pollVars, published, now, simpleVars, limiterVars>>

\* "for connection in disconnected: if connection in list: list.remove(connection)"
RECURSIVE Prune(_, _)
Prune(list, disconnected) ==
  IF disconnected = <<>> THEN list
  ELSE Prune(IF Head(disconnected) \in Range(list)
               THEN RemoveFirst(list, Head(disconnected))
               ELSE list,
             Tail(disconnected))

\* mutant: a failed delivery is raised to the caller when the loop is over
BroadcastReturn_raising(m) ==
  LET f == bcasts[m] IN
  /\ f.pc = "iter"
  /\ f.idx >= Len(active_connections)
  /\ active_connections' = Prune(active_connections, f.disconnected)
  /\ bcasts' = [bcasts EXCEPT ![m].pc = IF f.disconnected = <<>> THEN "done" ELSE "error",
                              ![m].idx = 0, ![m].disconnected = <<>>]
  /\ UNCHANGED <<appVars, connected, alive, inbox, bus_tasks, pollVars, now,
                 simpleVars, limiterVars>>
  /\ IF f.publish /\ f.disconnected = <<>> THEN publish_status ELSE UNCHANGED published
  /\ IF f.ws # 0
       THEN ws_pc' = [ws_pc EXCEPT ![f.ws] = "loop"]
       ELSE UNCHANGED ws_pc

\* a handler suspended in a send is resumed and the iterator is exhausted:
\* failed connections are removed, broadcast returns and its caller runs to
\* its end (or back to receive_json)
BroadcastReturn(m) ==
  LET f == bcasts[m] IN
  /\ f.pc = "iter"
  /\ f.idx >= Len(active_connections)
  /\ active_connections' = Prune(active_connections, f.disconnected)
  /\ bcasts' = [bcasts EXCEPT ![m].pc = "done", ![m].idx = 0,
                              ![m].disconnected = <<>>]
  /\ UNCHANGED <<appVars, connected, alive, inbox, bus_tasks, pollVars, now, simpleVars, limiterVars>>
  /\ IF f.publish THEN publish_status ELSE UNCHANGED published
  /\ IF f.ws # 0
       THEN ws_pc' = [ws_pc EXCEPT ![f.ws] = "loop"]
       ELSE UNCHANGED ws_pc


\* -------------------------------------------------- websocket_endpoint

\* messages a push-channel client sends inbound
WsInputs ==
  { [action |-> "setDisplay", line1 |-> LA, line2 |-> LB],
    [action |-> "setDisplay", line1 |-> LA, line2 |-> LB, line3 |-> LA,
     line4 |-> LB, line5 |-> LA, line6 |-> LB, line7 |-> LG],
    [action |-> "clear"],
    [action |-> "demo"],
    [action |-> "datetime"],
    [action |-> "datetime", enable |-> FALSE],
    [action |-> "ping"] }

WsStateRequest == [action |-> "getState"]

StateMessage == [action |-> "state", data |-> get_state]

StateMessages(o) == {i \in 1..Len(inbox[o]) : inbox[o][i].action = "state"}

\* mutant: the connection is registered and the state message is not sent
websocket_connect_unannounced(o) ==
  /\ ws_pc[o] = "idle"
  /\ active_connections' = Append(active_connections, o)
  /\ alive' = [alive EXCEPT ![o] = TRUE]
  /\ ws_pc' = [ws_pc EXCEPT ![o] = "loop"]
  /\ UNCHANGED <<appVars, connected, inbox, bcasts, bus_tasks, pollVars,
                 published, now, simpleVars, limiterVars>>

\* manager.connect (accept, append) and the state message sent on connect
websocket_connect(o) ==
  /\ ws_pc[o] = "idle"
  /\ active_connections' = Append(active_connections, o)
  /\ inbox' = [inbox EXCEPT ![o] = Append(@, StateMessage)]
  /\ alive' = [alive EXCEPT ![o] = TRUE]
  /\ ws_pc' = [ws_pc EXCEPT ![o] = "loop"]
  /\ UNCHANGED <<appVars, connected, bcasts, bus_tasks, pollVars, published, now, simpleVars, limiterVars>>

\* one turn of the read loop: receive_json returns data
websocket_receive(o, data) ==
  /\ ws_pc[o] = "loop"
  /\ alive[o]
  /\ UNCHANGED <<command_queue, connected, alive, bus_tasks, pollVars, now,
                 simpleVars, limiterVars>>
  /\ CASE data.action = "setDisplay" ->
            /\ current_display' =
                 update_display([i \in 1..6 |-> Get(data, LineKey[i], Empty)])
            /\ datetime_mode' = FALSE
            /\ BeginBroadcast(Tagged(data), o, FALSE)
       [] data.action = "clear" ->
            /\ current_display' =
                 update_display(<<Empty, Empty, Empty, Empty, Empty, Empty>>)
            /\ datetime_mode' = FALSE
            /\ BeginBroadcast(Tagged([action |-> "clear"]), o, FALSE)
       [] data.action = "demo" ->
            /\ datetime_mode' = FALSE
            /\ BeginBroadcast(Tagged([action |-> "demo"]), o, FALSE)
            /\ UNCHANGED current_display
       [] data.action = "datetime" ->
            /\ datetime_mode' = Get(data, "enable", TRUE)
            /\ BeginBroadcast(
                 Tagged([action |-> "datetime",
                         enable |-> Get(data, "enable", TRUE)]), o, FALSE)
            /\ UNCHANGED current_display
       [] data.action = "getState" ->
            /\ inbox' = [inbox EXCEPT ![o] = Append(@, StateMessage)]
            /\ UNCHANGED <<current_display, datetime_mode, active_connections,
                           bcasts, ws_pc, published>>
       [] OTHER ->
            UNCHANGED <<current_display, datetime_mode, active_connections,
                        bcasts, ws_pc, inbox, published>>

\* the client goes away: later sends to it raise, its receive_json raises
peer_close(o) ==
  /\ alive[o]
  /\ alive' = [alive EXCEPT ![o] = FALSE]
  /\ UNCHANGED <<appVars, active_connections, connected, ws_pc, inbox, bcasts,
                 bus_tasks, pollVars, published, now, simpleVars, limiterVars>>

\* ConnectionManager.disconnect: list.remove raises ValueError when the
\* connection is not in the list
disconnect(o) ==
  IF o \in Range(active_connections)
    THEN /\ active_connections' = RemoveFirst(active_connections, o)
         /\ ws_pc' = [ws_pc EXCEPT ![o] = "closed"]
    ELSE /\ UNCHANGED active_connections
         /\ ws_pc' = [ws_pc EXCEPT ![o] = "error"]

\* receive_json raises WebSocketDisconnect: the handler calls manager.disconnect
websocket_disconnect(o) ==
  /\ ws_pc[o] = "loop"
  /\ ~alive[o]
  /\ disconnect(o)
  /\ UNCHANGED <<appVars, connected, alive, inbox, bcasts, bus_tasks, pollVars,
                 published, now, simpleVars, limiterVars>>

\* ---------------------------------------------------------- MQTTManager

on_connect ==
  /\ ~connected
  /\ connected' = TRUE
  /\ UNCHANGED <<appVars, active_connections, wsVars, bcasts, bus_tasks,
                 pollVars, published, now, simpleVars, limiterVars>>

on_disconnect ==
  /\ connected
  /\ connected' = FALSE
  /\ UNCHANGED <<appVars, active_connections, wsVars, bcasts, bus_tasks,
                 pollVars, published, now, simpleVars, limiterVars>>

\* a bus payload: kind "text" is not JSON, "dict" a JSON object, "other" any
\* other JSON value
BusInputs ==
  { [topic |-> "display", kind |-> "dict", value |-> [lines |-> SevenLines]],
    [topic |-> "display", kind |-> "dict", value |-> [line1 |-> LB]],
    [topic |-> "display", kind |-> "text", value |-> LA],
    [topic |-> "display", kind |-> "other", value |-> LA],
    [topic |-> "clear", kind |-> "text", value |-> Empty],
    [topic |-> "demo", kind |-> "text", value |-> Empty],
    [topic |-> "datetime", kind |-> "dict", value |-> [enable |-> FALSE]],
    [topic |-> "datetime", kind |-> "text", value |-> LA],
    [topic |-> "command", kind |-> "dict",
     value |-> [action |-> "setDisplay", line1 |-> LA]],
    [topic |-> "command", kind |-> "dict", value |-> [action |-> "clear"]],
    [topic |-> "command", kind |-> "dict", value |-> [action |-> "demo"]],
    [topic |-> "command", kind |-> "dict", value |-> [action |-> "datetime"]],
    [topic |-> "command", kind |-> "dict", value |-> [text |-> LA]] }

\* json.loads(payload), and {"text": payload} when it raises JSONDecodeError
ParsePayload(msg) ==
  IF msg.kind = "text"
    THEN [kind |-> "dict", value |-> [text |-> msg.value]]
    ELSE [kind |-> msg.kind, value |-> msg.value]

\* the coroutine on_message hands to asyncio.create_task ("none": no task)
on_message_task(msg) ==
  LET data == ParsePayload(msg)
      isdict == data.kind = "dict"
      d == data.value
  IN
  CASE msg.topic = "display" ->
         [fn |-> "_update_display",
          arg |-> IF isdict
                    THEN IF "lines" \in DOMAIN d
                           THEN Take(d.lines, 6)
                           ELSE [i \in 1..6 |-> Get(d, LineKey[i], Empty)]
                    ELSE <<>>]
    [] msg.topic = "clear" -> [fn |-> "_clear_display"]
    [] msg.topic = "demo" -> [fn |-> "_start_demo"]
    [] msg.topic = "datetime" ->
         [fn |-> "_set_datetime",
          arg |-> IF isdict THEN Get(d, "enable", TRUE) ELSE TRUE]
    [] msg.topic = "command" ->
         IF isdict /\ "action" \in DOMAIN d
           THEN CASE d.action = "setDisplay" ->
                       [fn |-> "_update_display",
                        arg |-> [i \in 1..6 |-> Get(d, LineKey[i], Empty)]]
                  [] d.action = "clear" -> [fn |-> "_clear_display"]
                  [] d.action = "demo" -> [fn |-> "_start_demo"]
                  [] d.action = "datetime" ->
                       [fn |-> "_set_datetime", arg |-> Get(d, "enable", TRUE)]
                  [] OTHER -> [fn |-> "none"]
           ELSE [fn |-> "none"]

\* on_message.  asyncio.create_task needs the event loop to be running in
\* the calling thread and raises RuntimeError otherwise, which the handler's
\* "except Exception" swallows; the callback's thread is the client
\* library's choice, so both outcomes are kept (scheduled or not).
on_message(msg, scheduled) ==
  /\ IF scheduled /\ on_message_task(msg).fn # "none"
       THEN bus_tasks' = Append(bus_tasks, on_message_task(msg))
       ELSE UNCHANGED bus_tasks
  /\ UNCHANGED <<appVars, active_connections, connected, wsVars, bcasts,
                 pollVars, published, now, simpleVars, limiterVars>>

\* the event loop starts the oldest task on_message created; it runs up to
\* the first send of its broadcast
_update_display(lines) ==
  /\ current_display' = update_display(lines)
  /\ datetime_mode' = FALSE
  /\ add_command(Tagged(SetDisplayCommand(lines)))
  /\ BeginBroadcast(Tagged(SetDisplayCommand(lines)), 0, TRUE)

_clear_display ==
  /\ current_display' = update_display(<<Empty, Empty, Empty, Empty, Empty, Empty>>)
  /\ datetime_mode' = FALSE
  /\ add_command(Tagged([action |-> "clear"]))
  /\ BeginBroadcast(Tagged([action |-> "clear"]), 0, TRUE)

_start_demo ==
  /\ datetime_mode' = FALSE
  /\ add_command(Tagged([action |-> "demo"]))
  /\ BeginBroadcast(Tagged([action |-> "demo"]), 0, FALSE)
  /\ UNCHANGED current_display

_set_datetime(enable) ==
  /\ datetime_mode' = enable
  /\ UNCHANGED current_display
  /\ add_command(Tagged([action |-> "datetime", enable |-> enable]))
  /\ BeginBroadcast(Tagged([action |-> "datetime", enable |-> enable]), 0, TRUE)

run_bus_task ==
  /\ bus_tasks # <<>>
  /\ bus_tasks' = Tail(bus_tasks)
  /\ LET t == Head(bus_tasks) IN
       CASE t.fn = "_update_display" -> _update_display(t.arg)
         [] t.fn = "_clear_display" -> _clear_display
         [] t.fn = "_start_demo" -> _start_demo
         [] t.fn = "_set_datetime" -> _set_datetime(t.arg)
  /\ UNCHANGED <<connected, alive, pollVars, now, simpleVars, limiterVars>>

\* ------------------------------------------- simple_server.py handlers
\* HTTPServer serves one request at a time: each handler is one step.

SimpleDisplayInputs ==
  { [lines |-> <<LA>>],
    [lines |-> SevenLines],
    [lines |-> <<LA, LB>>, colors |-> <<"red", "", "blue">>],
    [line1 |-> LA, line2 |-> LB],
    [line2 |-> LB, color2 |-> "red", color3 |-> "blue"],
    [text |-> LA] }

\* whether create_display_command returns a command (and not None)
create_display_command_ok(data) ==
  IF "lines" \in DOMAIN data
    THEN Len(data.lines) <= 6
    ELSE \E i \in 1..6 : LineKey[i] \in DOMAIN data

\* the command create_display_command returns
create_display_command(data) ==
  IF "lines" \in DOMAIN data
    THEN LET colors == Get(data, "colors", <<>>)
             given == {i \in 1..6 : i <= Len(colors) /\ colors[i] # ""}
         IN  [k \in {ColorKey[i] : i \in given} |->
                colors[CHOOSE i \in given : ColorKey[i] = k]]
             @@ [k \in {LineKey[i] : i \in 1..6} |->
                   LET i == CHOOSE j \in 1..6 : LineKey[j] = k
                   IN  IF i <= Len(data.lines) THEN data.lines[i] ELSE Empty]
             @@ [action |-> "setDisplay"]
    ELSE LET given == {i \in 1..6 : Get(data, ColorKey[i], "") # ""}
         IN  [k \in {ColorKey[i] : i \in given} |-> data[k]]
             @@ [k \in {LineKey[i] : i \in 1..6} |-> Get(data, k, Empty)]
             @@ [action |-> "setDisplay"]

SimpleTagged(command) == ("mid" :> simple_posted + 1) @@ command

simple_append(command) ==
  /\ simple_queue' = Append(simple_queue, SimpleTagged(command))
  /\ simple_posted' = simple_posted + 1
  /\ UNCHANGED <<simple_polled, simple_result, serverVars>>

\* handle_api_post
simple_post_display(data) ==
  IF create_display_command_ok(data)
    THEN simple_append(create_display_command(data))
    ELSE UNCHANGED vars   \* {'status': 'error', 'message': 'Invalid display data'}

simple_post_clear == simple_append([action |-> "clear"])

simple_post_demo == simple_append([action |-> "demo"])

\* enable = data.get('enable', True)
simple_post_datetime(data) ==
  simple_append([action |-> "datetime", enable |-> Get(data, "enable", TRUE)])

\* handle_command_polling
handle_command_polling ==
  /\ IF simple_queue # <<>>
       THEN /\ simple_result' = Head(simple_queue)
            /\ simple_queue' = Tail(simple_queue)
            /\ simple_polled' = Append(simple_polled, Head(simple_queue))
       ELSE /\ simple_result' = NoCommand
            /\ UNCHANGED <<simple_queue, simple_polled>>
  /\ UNCHANGED <<simple_posted, serverVars>>

\* ------------------------------------------------ route dependencies

\* SPLITFLAP_API_KEY is set ("none" stands for None: no key configured)
API_KEY == "secret"

\* values of the X-API-Key header of a request ("none": no header)
Credentials == {"none", "wrong", "secret"}

\* verify_api_key: FALSE stands for HTTPException(403)
verify_api_key(x_api_key) == ~(API_KEY # "none" /\ x_api_key # API_KEY)

\* The POST routes as the app dispatches a request of client_ip with header
\* x_api_key: the route decorators declare no dependency, so neither
\* check_rate_limit nor verify_api_key is called and the endpoint runs.
post_display(client_ip, x_api_key, data) == set_display(data)

post_clear(client_ip, x_api_key) == clear_display

post_demo(client_ip, x_api_key) == start_demo

post_datetime(client_ip, x_api_key, enable) == set_datetime_mode(enable)

\* -------------------------------------------------------- specification

\* Spec: the four REST handlers, the push channel's inbound commands, the
\* bus and the poll, with every input shape.  Handlers run one at a time
\* here (a request arrives when no handler is suspended in a send) and the
\* model takes MaxMutations mutation requests.
Quiet == bus_tasks = <<>> /\ \A m \in 1..Len(bcasts) : bcasts[m].pc = "done"

Open == Quiet /\ Mutations < MaxMutations

\* observers are interchangeable: they join in the order of their numbers
JoinsNext(o) == \A p \in Observers : p < o => ws_pc[p] # "idle"

Next ==
  \/ Open /\ \E data \in RestDisplayInputs : set_display(data)
  \/ Open /\ clear_display
  \/ Open /\ start_demo
  \/ Open /\ \E enable \in BOOLEAN : set_datetime_mode(enable)
  \/ Open /\ \E o \in Observers, data \in WsInputs : websocket_receive(o, data)
  \/ Open /\ \E msg \in BusInputs, scheduled \in BOOLEAN : on_message(msg, scheduled)
  \/ Quiet /\ poll_commands
  \/ Quiet /\ \E o \in Observers : JoinsNext(o) /\ websocket_connect(o)
  \/ \E m \in 1..Len(bcasts) : BroadcastSend(m)
  \/ \E m \in 1..Len(bcasts) : BroadcastReturn(m)
  \/ run_bus_task

Spec == Init /\ [][Next]_vars

\* SpecFanout: handlers suspended in the sends of their broadcasts while
\* other handlers run, observers connecting, asking for the state, going
\* away and being disconnected.  One REST mutation and one inbound push
\* mutation are the commands; the model takes MaxFanoutMutations of them.
InitFanout == InitWith(FanoutObservers)

OpenFanout == Len(bcasts) < MaxFanoutMutations

NextFanout ==
  \/ OpenFanout /\ clear_display
  \/ OpenFanout /\ \E o \in FanoutObservers : websocket_receive(o, [action |-> "demo"])
  \/ \E o \in FanoutObservers :
       /\ Cardinality(StateMessages(o)) <= MaxStateRequests
       /\ websocket_receive(o, WsStateRequest)
  \/ \E m \in 1..Len(bcasts) : BroadcastSend(m)
  \/ \E m \in 1..Len(bcasts) : BroadcastReturn(m)
  \/ \E o \in FanoutObservers : websocket_connect(o)
  \/ \E o \in FanoutObservers : peer_close(o)
  \/ \E o \in FanoutObservers : websocket_disconnect(o)

SpecFanout == InitFanout /\ [][NextFanout]_vars

\* SpecJoin: observers that join while broadcasts are under way and other
\* handlers change the display; the model takes MaxJoinMutations mutations.
InitJoin == InitWith(JoinObservers)

OpenJoin == Len(bcasts) < MaxJoinMutations

NextJoin ==
  \/ OpenJoin /\ set_display([line1 |-> LA, line2 |-> LB])
  \/ OpenJoin /\ \E o \in JoinObservers : websocket_receive(o, [action |-> "datetime"])
  \/ \E m \in 1..Len(bcasts) : BroadcastSend(m)
  \/ \E m \in 1..Len(bcasts) : BroadcastReturn(m)
  \/ \E o \in JoinObservers : websocket_connect(o)
  \/ \E o \in JoinObservers : peer_close(o)
  \/ \E o \in JoinObservers : websocket_disconnect(o)

SpecJoin == InitJoin /\ [][NextJoin]_vars

\* SpecQueue: the command queue of server.py and the one of
\* simple_server.py, each with its producers and its poll, no observer
\* connected; the model takes MaxQueueCommands commands in all.
InitQueue == InitWith({})

OpenQueue == Len(bcasts) + simple_posted < MaxQueueCommands

NextQueue ==
  \/ OpenQueue /\ set_display([line1 |-> LA, line2 |-> LB])
  \/ OpenQueue /\ clear_display
  \/ OpenQueue /\ start_demo
  \/ poll_commands
  \/ OpenQueue /\ \E data \in SimpleDisplayInputs : simple_post_display(data)
  \/ OpenQueue /\ simple_post_clear
  \/ OpenQueue /\ simple_post_demo
  \/ OpenQueue /\ \E data \in {[enable |-> FALSE], [x \in {} |-> TRUE]} : simple_post_datetime(data)
  \/ handle_command_polling

SpecQueue == InitQueue /\ [][NextQueue]_vars

\* SpecText: setDisplay inputs with lines of 16 and of 17 characters, on the
\* REST route, the push channel and the bus; handlers run one at a time and
\* the model takes MaxTextMutations mutation requests.
TextObservers == 1..NumTextObservers

\* Field(max_length=16) of DisplayContent
MaxLineLen == 16

FullLine == [i \in 1..MaxLineLen |-> "X"]
LongLine == [i \in 1..(MaxLineLen + 1) |-> "X"]

TextRestInputs ==
  { [lines |-> <<LA, LongLine>>],
    [line1 |-> FullLine, line2 |-> LongLine],
    [lines |-> <<FullLine>>] }

TextWsInputs ==
  { [action |-> "setDisplay", line1 |-> LongLine],
    [action |-> "setDisplay", line1 |-> FullLine] }

TextBusInputs ==
  { [topic |-> "display", kind |-> "dict", value |-> [lines |-> <<LB, LongLine>>]],
    [topic |-> "display", kind |-> "text", value |-> LongLine],
    [topic |-> "command", kind |-> "dict",
     value |-> [action |-> "setDisplay", line1 |-> LongLine]] }

InitText == InitWith(TextObservers)

OpenText == Quiet /\ Mutations < MaxTextMutations

TextJoinsNext(o) == \A p \in TextObservers : p < o => ws_pc[p] # "idle"

NextText ==
  \/ OpenText /\ \E data \in TextRestInputs : set_display(data)
  \/ OpenText /\ \E o \in TextObservers, data \in TextWsInputs : websocket_receive(o, data)
  \/ OpenText /\ \E msg \in TextBusInputs : on_message(msg, TRUE)
  \/ Quiet /\ \E o \in TextObservers : TextJoinsNext(o) /\ websocket_connect(o)
  \/ \E m \in 1..Len(bcasts) : BroadcastSend(m)
  \/ \E m \in 1..Len(bcasts) : BroadcastReturn(m)
  \/ run_bus_task

SpecText == InitText /\ [][NextText]_vars

\* SpecLimiter: calls of the rate limiter by two client addresses while the
\* clock moves on.
InitLimiter == InitWith({})

NextLimiter ==
  \/ now < MaxTime /\ Tick
  \/ Len(limit_log) < MaxLimiterCalls /\ \E client_ip \in Sources : check_rate_limit(client_ip)

SpecLimiter == InitLimiter /\ [][NextLimiter]_vars

\* SpecGate: REST mutation requests of two client addresses, with and
\* without the configured key, one observer and the poll; handlers run one
\* at a time and the model takes MaxGateMutations requests.
GateObservers == {1}

InitGate == InitWith(GateObservers)

OpenGate == Quiet /\ Len(bcasts) < MaxGateMutations

NextGate ==
  \/ OpenGate /\ \E client_ip \in Sources, x_api_key \in Credentials :
                   \E data \in {[lines |-> <<LA>>], [text |-> LA]} :
                     post_display(client_ip, x_api_key, data)
  \/ OpenGate /\ \E client_ip \in Sources, x_api_key \in Credentials :
                   post_clear(client_ip, x_api_key)
  \/ OpenGate /\ \E client_ip \in Sources, x_api_key \in Credentials :
                   post_demo(client_ip, x_api_key)
  \/ OpenGate /\ \E client_ip \in Sources, x_api_key \in Credentials :
                   \E enable \in BOOLEAN : post_datetime(client_ip, x_api_key, enable)
  \/ Quiet /\ poll_commands
  \/ Quiet /\ \E o \in GateObservers : websocket_connect(o)
  \/ \E m \in 1..Len(bcasts) : BroadcastReturn(m)

SpecGate == InitGate /\ [][NextGate]_vars

\* SpecShape: POST /api/display of server.py and of simple_server.py with
\* every payload shape (a lines array or line fields, alone, with a colors
\* array or with color fields, and neither), and the polls; no observer is
\* connected and the model takes MaxShapeCommands accepted requests.
ShapeInputs ==
  { [lines |-> <<LA, LB>>],
    [line1 |-> LA, line2 |-> LB],
    [lines |-> <<LA, LB>>, colors |-> <<"red", "blue">>],
    [lines |-> <<LA, LB>>, colors |-> <<"red", "", "blue">>],
    [lines |-> <<LA, LB>>, color1 |-> "red"],
    [line1 |-> LA, line2 |-> LB, color2 |-> "blue"],
    [line1 |-> LA, colors |-> <<"red">>],
    [text |-> LA],
    [colors |-> <<"red">>] }

InitShape == InitWith({})

OpenShape == Len(bcasts) + simple_posted < MaxShapeCommands

NextShape ==
  \/ OpenShape /\ \E data \in ShapeInputs : set_display(data)
  \/ OpenShape /\ \E data \in ShapeInputs : simple_post_display(data)
  \/ poll_commands
  \/ handle_command_polling

SpecShape == InitShape /\ [][NextShape]_vars

\* SpecBridge: REST mutations while observers join, go away and are
\* disconnected, so that sends of a broadcast fail, and while the bus
\* bridge connects and disconnects and its publish call succeeds or
\* raises; the model takes MaxBridgeMutations mutation requests.
BridgeObservers == {1, 2}

InitBridge == InitWith(BridgeObservers)

OpenBridge == Len(bcasts) < MaxBridgeMutations

NextBridge ==
  \/ OpenBridge /\ set_display([line1 |-> LA, line2 |-> LB])
  \/ OpenBridge /\ start_demo
  \/ \E m \in 1..Len(bcasts) : BroadcastSend(m)
  \/ \E m \in 1..Len(bcasts) : BroadcastReturn(m)
  \/ \E o \in BridgeObservers : websocket_connect(o)
  \/ \E o \in BridgeObservers : peer_close(o)
  \/ \E o \in BridgeObservers : websocket_disconnect(o)
  \/ on_connect
  \/ on_disconnect

SpecBridge == InitBridge /\ [][NextBridge]_vars

\* SpecClock: GET /api/display between REST mutations while time passes; no
\* observer is connected.  The model takes MaxClockMutations mutations and
\* MaxDisplayQueries queries up to time MaxTime.
InitClock == InitWith({})

NextClock ==
  \/ Len(bcasts) < MaxClockMutations /\ set_display([line1 |-> LA])
  \/ Len(bcasts) < MaxClockMutations /\ clear_display
  \/ Len(state_log) < MaxDisplayQueries /\ get_display
  \/ now < MaxTime /\ Tick

SpecClock == InitClock /\ [][NextClock]_vars

\* SpecChain: REST setDisplay requests with different lines while
\* observers are connected and the bridge connects, so that a handler is
\* suspended in its send while the next request is served.  The model
\* takes MaxChainMutations requests.
ChainObservers == {1, 2}

InitChain == InitWith(ChainObservers)

OpenChain == Len(bcasts) < MaxChainMutations

NextChain ==
  \/ OpenChain /\ \E line \in {LA, LB} : set_display([line1 |-> line])
  \/ \E m \in 1..Len(bcasts) : BroadcastSend(m)
  \/ \E m \in 1..Len(bcasts) : BroadcastReturn(m)
  \/ \E o \in ChainObservers : websocket_connect(o)
  \/ on_connect
  \/ on_disconnect

SpecChain == InitChain /\ [][NextChain]_vars

\* SpecInbound: the bridge connects and disconnects, the bus delivers
\* messages while it is connected, and the event loop runs the scheduled
\* updates later; one observer may be connected.  The model takes
\* MaxInboundMessages scheduled updates.
InboundObservers == {1}

InitInbound == InitWith(InboundObservers)

OpenInbound == Mutations < MaxInboundMessages

NextInbound ==
  \/ on_connect
  \/ on_disconnect
  \/ OpenInbound /\ connected
       /\ \E msg \in BusInputs, scheduled \in BOOLEAN : on_message(msg, scheduled)
  \/ run_bus_task
  \/ \E m \in 1..Len(bcasts) : BroadcastReturn(m)
  \/ \E o \in InboundObservers : websocket_connect(o)

SpecInbound == InitInbound /\ [][NextInbound]_vars

\* ---------------------------------------------------------------- claims

Blank == <<Empty, Empty, Empty, Empty, Empty, Empty>>

\* the mutation applied by the step, when the step applies one
Applies == Len(bcasts') = Len(bcasts) + 1
Applied == bcasts'[Len(bcasts')]

Mids(s) == [i \in 1..Len(s) |-> s[i].mid]
UpTo(n) == [i \in 1..n |-> i]

\* C1: every mutation applied so far, from whichever channel, has been put
\* on the command queue exactly once: it is in the queue or was returned by
\* a poll, once.
C1_EveryMutationQueuedOnce ==
  \A m \in 1..Len(bcasts) :
    Cardinality({i \in 1..Len(polled \o command_queue) :
                   (polled \o command_queue)[i].mid = m}) = 1

\* C2: when the broadcast of a mutation has returned, every observer that
\* was registered when the mutation was applied and is still connected has
\* been handed the mutation's command.
C2_NoLiveObserverSkipped ==
  \A m \in 1..Len(bcasts) :
    bcasts[m].pc = "done" =>
      \A o \in bcasts[m].targets :
        (alive[o] /\ o \in Range(active_connections)) =>
          \E i \in 1..Len(inbox[o]) : inbox[o][i] = bcasts[m].msg

\* C3: every observer is handed the commands of mutations in the order the
\* mutations were applied.
C3_PerObserverMutationOrder ==
  \A o \in DOMAIN inbox :
    \A i, j \in 1..Len(inbox[o]) :
      (i < j /\ "mid" \in DOMAIN inbox[o][i] /\ "mid" \in DOMAIN inbox[o][j])
        => inbox[o][i].mid < inbox[o][j].mid

\* C4: the step that registers an observer hands it exactly one message,
\* and the first message an observer is handed is the state message that
\* carries the display lines and the datetime mode of that moment.
C4_FirstMessageIsSnapshot ==
  [][\A o \in DOMAIN inbox :
       /\ (o \in Range(active_connections') /\ o \notin Range(active_connections))
            => (inbox[o] = <<>> /\ Len(inbox'[o]) = 1)
       /\ (inbox[o] = <<>> /\ inbox'[o] # <<>>)
            => /\ o \in Range(active_connections')
               /\ inbox'[o][1].action = "state"
               /\ inbox'[o][1].data.lines = current_display'
               /\ inbox'[o][1].data.datetime_mode = datetime_mode'
       /\ inbox[o] # <<>> => inbox'[o][1] = inbox[o][1]]_vars

\* C4 witness: an observer joined after mutation 1 was applied and while its
\* broadcast was under way; its first message shows the state mutation 1
\* wrote and its second is the command of mutation 1.
C4_Witness ==
  \E o \in DOMAIN inbox :
    /\ Len(bcasts) >= 1
    /\ o \notin bcasts[1].targets
    /\ Len(inbox[o]) >= 2
    /\ inbox[o][1].action = "state"
    /\ inbox[o][1].data.lines # Blank
    /\ inbox[o][2] = bcasts[1].msg

\* C5: the commands returned by polls followed by those still queued are the
\* commands enqueued, each once and in the order of enqueueing (server.py and
\* simple_server.py).
C5_PolledOnceInOrder ==
  /\ Mids(polled \o command_queue) = UpTo(Len(bcasts))
  /\ \A i \in 1..Len(polled \o command_queue) :
       (polled \o command_queue)[i] = bcasts[i].msg
  /\ Mids(simple_polled \o simple_queue) = UpTo(simple_posted)

C5_Witness ==
  /\ Len(polled) >= 1
  /\ Len(command_queue) >= 1
  /\ Len(simple_polled) >= 1

\* C6: a step taken with the command queue empty returns no command to any
\* poller, and when it answers a poll the answer is {action: none}, the
\* queue stays empty and the display state is unchanged (both servers).
C6_EmptyPollIsNoOp ==
  [][/\ command_queue = <<>> =>
          /\ polled' = polled
          /\ poll_result' # poll_result =>
               /\ poll_result' = NoCommand
               /\ command_queue' = <<>>
               /\ current_display' = current_display
               /\ datetime_mode' = datetime_mode
     /\ simple_queue = <<>> =>
          /\ simple_polled' = simple_polled
          /\ simple_result' # simple_result =>
               /\ simple_result' = NoCommand
               /\ simple_queue' = <<>>]_vars

\* C6 witness: both servers answered a poll on an empty queue after having
\* returned a command to an earlier poll.
C6_Witness ==
  /\ polled # <<>> /\ command_queue = <<>> /\ poll_result = NoCommand
  /\ simple_polled # <<>> /\ simple_queue = <<>> /\ simple_result = NoCommand

\* C7: the display always has six lines, and a step that applies a
\* setDisplay stores the lines of its command at their positions and the
\* empty string at every position the command has no line for.
C7_SixLinesPadded ==
  /\ [](Len(current_display) = 6)
  /\ [][(Applies /\ Applied.msg.action = "setDisplay") =>
          \A i \in 1..6 :
            current_display'[i] = Get(Applied.msg, LineKey[i], Empty)]_vars

\* C7 witness: a setDisplay with one line was applied.
C7_Witness ==
  \E m \in 1..Len(bcasts) :
    /\ m = Len(bcasts)
    /\ bcasts[m].msg.action = "setDisplay"
    /\ "line1" \in DOMAIN bcasts[m].msg
    /\ "line2" \notin DOMAIN bcasts[m].msg
    /\ current_display = <<LA, Empty, Empty, Empty, Empty, Empty>>

\* C8: a step that applies clear, from any state and on any channel, leaves
\* six empty lines and datetime_mode false (so a second clear leaves the
\* state of the first).
C8_ClearBlanks ==
  [][(Applies /\ Applied.msg.action = "clear") =>
       (current_display' = Blank /\ datetime_mode' = FALSE)]_vars

\* C8 witness: clear was applied to a display that showed text.
C8_Witness ==
  /\ Len(bcasts) = 2
  /\ bcasts[1].msg.action = "setDisplay"
  /\ "line1" \in DOMAIN bcasts[1].msg
  /\ bcasts[2].msg.action = "clear"
  /\ current_display = Blank

\* C9: datetime_mode is false whenever the mutation applied last is a
\* setDisplay, clear or demo, and it is true only when the mutation applied
\* last is datetime with enable true.
C9_DatetimeModeOnlyByDatetime ==
  LET n == Len(bcasts) IN
  /\ (n >= 1 /\ bcasts[n].msg.action \in {"setDisplay", "clear", "demo"})
       => datetime_mode = FALSE
  /\ datetime_mode = TRUE =>
       (n >= 1 /\ bcasts[n].msg.action = "datetime" /\ bcasts[n].msg.enable = TRUE)

\* C9 witness: datetime mode was enabled and a setDisplay applied after it.
C9_Witness ==
  /\ Len(bcasts) = 2
  /\ bcasts[1].msg.action = "datetime"
  /\ bcasts[1].msg.enable = TRUE
  /\ bcasts[2].msg.action = "setDisplay"
  /\ datetime_mode = FALSE

\* whether a message, command or state, shows the seventh line of an input
ShowsSeventh(msg) ==
  \/ \E i \in 1..6 : Get(msg, LineKey[i], Empty) = LG
  \/ Get(msg, "line7", Empty) = LG
  \/ "lines" \in DOMAIN msg /\ LG \in Range(msg.lines)
  \/ "data" \in DOMAIN msg /\ LG \in Range(msg.data.lines)

\* C10: the seventh line of a setDisplay input is in no display state, in no
\* message handed to an observer and in no queued or polled command.
C10_SeventhLineDiscarded ==
  /\ LG \notin Range(current_display)
  /\ \A o \in DOMAIN inbox : \A i \in 1..Len(inbox[o]) : ~ShowsSeventh(inbox[o][i])
  /\ \A i \in 1..Len(command_queue) : ~ShowsSeventh(command_queue[i])
  /\ \A i \in 1..Len(polled) : ~ShowsSeventh(polled[i])


\* C11: in every state each stored line has at most 16 characters (a longer
\* line of a setDisplay is cut to 16 before it is stored).
C11_LinesAtMost16 ==
  \A i \in 1..Len(current_display) : Len(current_display[i]) <= MaxLineLen

\* calls of one source that were admitted, as positions of the log
Admitted(s) == {i \in 1..Len(limit_log) : limit_log[i].client_ip = s /\ limit_log[i].ok}

\* timestamps of a source inside the window that ends now
InWindow(s) ==
  {i \in 1..Len(requests[s]) : requests[s][i] >= now - RATE_LIMIT_WINDOW}

\* C12: every source has at most RATE_LIMIT_REQUESTS recorded timestamps
\* inside the trailing window, and a call of a source that comes when
\* RATE_LIMIT_REQUESTS of its calls were admitted within the window before
\* it is denied.
C12_AtMostNInWindow ==
  /\ \A s \in DOMAIN requests : Cardinality(InWindow(s)) <= RATE_LIMIT_REQUESTS
  /\ \A j \in 1..Len(limit_log) :
       Cardinality({i \in Admitted(limit_log[j].client_ip) :
                      i < j /\ limit_log[i].at >= limit_log[j].at - RATE_LIMIT_WINDOW})
         >= RATE_LIMIT_REQUESTS
       => ~limit_log[j].ok

\* C12 witness: a source was admitted RATE_LIMIT_REQUESTS times and its next
\* call, inside the window, was denied.
C12_Witness ==
  \E j \in 1..Len(limit_log) :
    /\ ~limit_log[j].ok
    /\ Cardinality({i \in Admitted(limit_log[j].client_ip) : i < j})
         = RATE_LIMIT_REQUESTS
    /\ Cardinality(InWindow(limit_log[j].client_ip)) = RATE_LIMIT_REQUESTS

\* the n-th admitted call of a source, as a position of the log
NthAdmitted(s, n) ==
  CHOOSE i \in Admitted(s) : Cardinality({x \in Admitted(s) : x <= i}) = n

\* the admitted calls of a source before call j
AdmittedBefore(s, j) == {i \in Admitted(s) : i < j}

\* the first of the last RATE_LIMIT_REQUESTS admissions of a source before call j
FirstOfLastN(s, j) ==
  CHOOSE i \in AdmittedBefore(s, j) :
    Cardinality({x \in AdmittedBefore(s, j) : x >= i}) = RATE_LIMIT_REQUESTS

\* C13: a call made more than RATE_LIMIT_WINDOW after the first of the
\* source's last RATE_LIMIT_REQUESTS admissions is admitted, whatever was
\* denied in between; and the recorded timestamps of a source are those of
\* its latest admitted calls, a denied call recording none.
C13_ReadmittedAfterWindow ==
  /\ \A j \in 1..Len(limit_log) :
       LET s == limit_log[j].client_ip IN
       (/\ Cardinality(AdmittedBefore(s, j)) >= RATE_LIMIT_REQUESTS
        /\ limit_log[j].at > limit_log[FirstOfLastN(s, j)].at + RATE_LIMIT_WINDOW)
       => limit_log[j].ok
  /\ \A s \in DOMAIN requests :
       LET n == Cardinality(Admitted(s))
           k == Len(requests[s])
       IN  /\ k <= n
           /\ \A x \in 1..k :
                requests[s][x] = limit_log[NthAdmitted(s, n - k + x)].at

\* C13 witness: a source used up its admissions, was denied, and was
\* admitted again more than RATE_LIMIT_WINDOW after the first of them.
C13_Witness ==
  \E j \in 1..Len(limit_log) :
    LET s == limit_log[j].client_ip IN
    /\ limit_log[j].ok
    /\ Cardinality(AdmittedBefore(s, j)) >= RATE_LIMIT_REQUESTS
    /\ limit_log[j].at > limit_log[FirstOfLastN(s, j)].at + RATE_LIMIT_WINDOW
    /\ \E d \in 1..(j - 1) :
         /\ limit_log[d].client_ip = s
         /\ ~limit_log[d].ok
         /\ \A i \in AdmittedBefore(s, j) : i < d

\* C14: every mutation applied so far was preceded by a call of the rate
\* limiter that admitted its request: there are at least as many admitted
\* calls as mutations.
C14_MutationsAreAdmitted ==
  Len(bcasts) <= Cardinality({i \in 1..Len(limit_log) : limit_log[i].ok})

\* what a rejected request must leave alone
Observable == <<current_display, datetime_mode, command_queue, inbox>>

\* C15: with a key configured, a step that serves a mutation request whose
\* X-API-Key header is missing or wrong changes neither the display state,
\* the command queue nor what any observer was handed.
C15_BadKeyChangesNothing ==
  [][\A client_ip \in Sources, x_api_key \in Credentials :
       (/\ API_KEY # "none"
        /\ x_api_key # API_KEY
        /\ \/ \E data \in {[lines |-> <<LA>>], [text |-> LA]} :
                post_display(client_ip, x_api_key, data)
           \/ post_clear(client_ip, x_api_key)
           \/ post_demo(client_ip, x_api_key)
           \/ \E enable \in BOOLEAN : post_datetime(client_ip, x_api_key, enable))
       => UNCHANGED Observable]_vars

\* a setDisplay payload of malformed shape: neither a lines list nor a line
\* field, or a colors array that is not as long as the lines array
Malformed(data) ==
  \/ "lines" \notin DOMAIN data /\ \A i \in 1..6 : LineKey[i] \notin DOMAIN data
  \/ /\ "lines" \in DOMAIN data
     /\ "colors" \in DOMAIN data
     /\ Len(data.colors) # Len(data.lines)

\* C16: a step of POST /api/display, on either server, that serves a
\* payload of malformed shape leaves the display state, both command queues
\* and what every observer was handed as they were.
C16_MalformedHasNoEffect ==
  [][\A data \in ShapeInputs :
       (Malformed(data) /\ (set_display(data) \/ simple_post_display(data)))
       => UNCHANGED <<current_display, datetime_mode, command_queue, inbox,
                      bcasts, simple_queue>>]_vars

\* every command queued, polled or broadcast so far, on either server
AllCommands ==
  Range(command_queue) \cup Range(polled) \cup Range(simple_queue)
    \cup Range(simple_polled) \cup {bcasts[m].msg : m \in 1..Len(bcasts)}
    \cup UNION {Range(inbox[o]) : o \in DOMAIN inbox}

\* C18: every setDisplay command queued or broadcast carries the six fields
\* line1..line6 (so the lines array and the line fields that describe the
\* same lines give the same command).
C18_SetDisplayHasSixFields ==
  \A c \in AllCommands :
    c.action = "setDisplay" => \A i \in 1..6 : LineKey[i] \in DOMAIN c

\* the color a payload supplies for line k ("" when none)
SuppliedColor(data, k) ==
  IF Get(data, ColorKey[k], "") # ""
    THEN data[ColorKey[k]]
    ELSE IF "colors" \in DOMAIN data /\ k <= Len(data.colors)
           THEN data.colors[k]
           ELSE ""

\* whether a command carries exactly the colors a payload supplies
CarriesColors(c, data) ==
  \A k \in 1..6 :
    IF SuppliedColor(data, k) # ""
      THEN ColorKey[k] \in DOMAIN c /\ c[ColorKey[k]] = SuppliedColor(data, k)
      ELSE ColorKey[k] \notin DOMAIN c

\* C19: the command made by a step that accepts a setDisplay payload, on
\* either server, carries colorK with the supplied value for exactly the
\* lines K the payload gives a non-empty color, as a color field or in a
\* colors array.
C19_CommandCarriesColors ==
  [][\A data \in ShapeInputs :
       /\ (simple_post_display(data) /\ simple_posted' = simple_posted + 1)
            => CarriesColors(simple_queue'[Len(simple_queue')], data)
       /\ (set_display(data) /\ Applies)
            => CarriesColors(Applied.msg, data)]_vars


C20_MutationIsPublished ==
  [][ \A m \in 1..Len(bcasts') :
        ( /\ connected
          /\ bcasts'[m].pc = "done"
          /\ (m > Len(bcasts) \/ bcasts[m].pc = "iter") )
        => Len(published') = Len(published) + 1 ]_vars

\* C21: a step in which the bridge handles a non-JSON payload on the
\* display topic schedules one display update that carries the payload's
\* text in one of its lines.
C21_TextPayloadIsApplied ==
  [][ \A msg \in BusInputs :
        ( /\ msg.topic = "display"
          /\ msg.kind = "text"
          /\ on_message(msg, TRUE) )
        => /\ Len(bus_tasks') = Len(bus_tasks) + 1
           /\ bus_tasks'[Len(bus_tasks')].fn = "_update_display"
           /\ \E i \in 1..Len(bus_tasks'[Len(bus_tasks')].arg) :
                bus_tasks'[Len(bus_tasks')].arg[i] = msg.value ]_vars

\* C22: two state queries with the same number of mutations applied before
\* them return the same timestamp.
C22_TimestampOfLastMutation ==
  \A i, j \in 1..Len(state_log) :
    state_log[i].applied = state_log[j].applied
      => state_log[i].state.timestamp = state_log[j].state.timestamp

\* the six lines mutation m wrote to the display
LinesWritten(m) == [i \in 1..6 |-> Get(bcasts'[m].msg, LineKey[i], Empty)]

\* the handler of mutation m finishes in this step
Finishes(m) ==
  /\ bcasts'[m].pc = "done"
  /\ (m > Len(bcasts) \/ bcasts[m].pc = "iter")

\* C23: a mutation is applied only when the handler of every earlier
\* mutation has finished, and the status snapshot the handler of a
\* setDisplay publishes carries the lines that this mutation wrote.
C23_ChainsDoNotInterleave ==
  [][ /\ Len(bcasts') > Len(bcasts)
           => \A m \in 1..Len(bcasts) : bcasts[m].pc = "done"
      /\ \A m \in 1..Len(bcasts') :
           (Finishes(m) /\ Len(published') = Len(published) + 1)
             => published'[Len(published')].payload.lines = LinesWritten(m) ]_vars

\* C24: when a broadcast returns after the send to some observer failed,
\* every other observer that was registered when the broadcast began and
\* is still registered and connected has been handed the message, and no
\* observer whose send failed is left in the registry.
C24_FailureSparesTheOthers ==
  [][ \A m \in 1..Len(bcasts) :
        ( /\ bcasts[m].pc = "iter"
          /\ bcasts'[m].pc = "done"
          /\ bcasts[m].disconnected # <<>> )
        => /\ \A o \in bcasts[m].targets \ Range(bcasts[m].disconnected) :
                (alive[o] /\ o \in Range(active_connections'))
                  => \E i \in 1..Len(inbox'[o]) : inbox'[o][i] = bcasts[m].msg
           /\ \A p \in Range(bcasts[m].disconnected) :
                p \notin Range(active_connections') ]_vars

\* C25: a step in which the read loop of an observer that is not in the
\* registry signals the disconnect ends the handler without an error and
\* leaves the registry as it is.
C25_UnregisterIsIdempotent ==
  [][ \A o \in DOMAIN ws_pc :
        (o \notin Range(active_connections) /\ websocket_disconnect(o))
          => /\ ws_pc'[o] = "closed"
             /\ active_connections' = active_connections ]_vars

\* C26: in a step taken while the bridge is disconnected nothing is
\* published, and if the step handles an inbound bus message (the callback
\* or the update it scheduled) then the display state, the command queue
\* and every observer's messages stay as they are.
C26_DisconnectedBridgeIsIdle ==
  [][ ~connected =>
        /\ published' = published
        /\ (run_bus_task \/ \E msg \in BusInputs, s \in BOOLEAN : on_message(msg, s))
             => UNCHANGED <<current_display, datetime_mode, command_queue, inbox>> ]_vars

\* the admitted calls of limit_log[n]'s source before call n that are not
\* older than the window at call n
OwnInWindow(log, n) ==
  {i \in 1..(n - 1) : /\ log[i].client_ip = log[n].client_ip
                      /\ log[i].ok
                      /\ log[i].at >= log[n].at - RATE_LIMIT_WINDOW}

\* C27: a step of the limiter changes the recorded window of no source but
\* the calling one, and every decision is the one that the caller's own
\* earlier admitted calls determine: admitted exactly when fewer than
\* RATE_LIMIT_REQUESTS of them are inside the window.
C27_SourcesAreIndependent ==
  [][ /\ \A a, b \in Sources :
           (a # b /\ check_rate_limit(a)) =>
             /\ (b \in DOMAIN requests') = (b \in DOMAIN requests)
             /\ b \in DOMAIN requests => requests'[b] = requests[b]
      /\ \A n \in 1..Len(limit_log') :
           limit_log'[n].ok =
             (Cardinality(OwnInWindow(limit_log', n)) < RATE_LIMIT_REQUESTS) ]_vars

\* C27 witness: one source is refused and another source, which has calls
\* on record, is admitted at the same time.
C27_Witness ==
  \E i, j \in 1..Len(limit_log) :
    /\ i < j
    /\ limit_log[i].client_ip # limit_log[j].client_ip
    /\ ~limit_log[i].ok
    /\ limit_log[j].ok
    /\ limit_log[j].at = limit_log[i].at
    /\ \E k \in 1..(i - 1) : limit_log[k].client_ip = limit_log[j].client_ip
====
